---- MODULE Spec2Model ----
(***************************************************************************)
(* Fraud-scoring service (src/ml/serve_model.py) and its offline trainer   *)
(* (src/ml/train_model.py).                                                *)
(*                                                                         *)
(* Strings that the code transforms (file names, model names) are          *)
(* sequences of tokens, so that str.replace is computed, not assumed.      *)
(* Probabilities are integers k standing for k/Scale; a score is the exact *)
(* rational [num, den].  Feature values are integers in hundredths         *)
(* (hour 12 is 1200, merchant_fraud_rate 0.02 is 2).                       *)
(***************************************************************************)
EXTENDS Integers, Sequences, FiniteSets, TLC

\* ------------------------------------------------------------- bounds
\* distinct well-formed blob contents a file can hold (blob v is version v)
MaxVersion == 2
\* changes an operator makes to the artifact directory during a run
MaxDirOps == 2
\* POST /reload requests during a run
MaxReloads == 2
\* POST /predict requests during a run
MaxRequests == 2
\* concurrent /predict handler threads
MaxHandlers == 2
\* resolution of a probability: k in 0..Scale stands for k/Scale
Scale == 20

VARIABLES
    dir_exists,     \* os.path.exists(models_dir)
    files,          \* file name -> content of the artifact directory
    dir_ops,        \* directory changes made so far
    models,         \* FraudModelService.models
    scalers,        \* FraudModelService.scalers
    feature_names,  \* FraudModelService.feature_names
    metadata,       \* FraudModelService.metadata
    svc,            \* "starting" | "up" | "crashed" (module import failed)
    lpc,            \* position of the thread running load_models
    li,             \* index of load_models' loop over model_files
    caller,         \* who runs load_models: "init" | "reload"
    reload_resp,    \* last response of POST /reload
    reloads,        \* /reload requests so far
    hpc,            \* handler -> position in the /predict handler
    htx,            \* handler -> request.json
    hobs,           \* handler -> the service's fields as its request met them
    hresp,          \* handler -> last response of POST /predict
    requests,       \* /predict requests so far
    stable_sets,    \* artifact sets that existed while no load was running
    load_ops,       \* dir_ops when the current or last load_models began
    t_models,       \* FraudModelTrainer.models
    t_scalers,      \* FraudModelTrainer.scalers
    t_feature_names,\* FraudModelTrainer.feature_names
    t_status,       \* outcome of the trainer's last call
    agg_in,         \* a per-model prediction record handed to the aggregator
    agg_out         \* what the aggregator returned for it

dirVars == <<dir_exists, files, dir_ops>>
svcVars == <<models, scalers, feature_names, metadata>>
loadVars == <<svc, lpc, li, caller, reload_resp, reloads, stable_sets, load_ops>>
handlerVars == <<hpc, htx, hobs, hresp, requests>>
trainVars == <<t_models, t_scalers, t_feature_names, t_status>>
aggVars == <<agg_in, agg_out>>
vars == <<dirVars, svcVars, loadVars, handlerVars, trainVars, aggVars>>

\* ------------------------------------------------------------ strings
EmptyDict == [k \in {} |-> 0]

StartsWith(s, p) == Len(p) <= Len(s) /\ SubSeq(s, 1, Len(p)) = p

\* Python's str.replace(old, new) on a token sequence, old non-empty
RECURSIVE Replace(_, _, _)
Replace(s, old, new) ==
    IF s = <<>> THEN <<>>
    ELSE IF StartsWith(s, old)
         THEN new \o Replace(SubSeq(s, Len(old) + 1, Len(s)), old, new)
         ELSE <<Head(s)>> \o Replace(Tail(s), old, new)

\* dict.get(key, default)
Get(d, k, default) == IF k \in DOMAIN d THEN d[k] ELSE default

\* ---------------------------------------------------- artifact directory
model_files ==
    << <<"random_forest", ".", "pkl">>,
       <<"xgboost", ".", "pkl">>,
       <<"isolation_forest", ".", "pkl">> >>
metadata_file == <<"metadata", ".", "json">>
scaler_file == <<"standard", "_scaler", ".", "pkl">>

BlobFiles == {model_files[i] : i \in 1..Len(model_files)} \cup {scaler_file}
AllFiles == BlobFiles \cup {metadata_file}

\* the names the service asks for when it predicts
ModelNames == {<<"random_forest">>, <<"xgboost">>, <<"isolation_forest">>}

\* what a blob file can hold: nothing, bytes pickle cannot read, or a blob
BlobContents == {[kind |-> "absent"], [kind |-> "corrupt"]}
                \cup {[kind |-> "blob", ver |-> v] : v \in 1..MaxVersion}

\* ------------------------------------------------------ feature schema
\* the trainer's feature_columns
feature_columns ==
    <<"amount", "hour", "day_of_week", "is_weekend", "is_night",
      "amount_z_score", "time_diff_minutes", "has_locations",
      "user_risk_score", "user_avg_amount", "user_amount_std", "user_txn_amount",
      "merchant_fraud_rate", "merchant_category_encoded", "merchant_risk_encoded">>

\* the keys of extract_features' dict with the default of each, in hundredths
FeatureDefaults ==
    [amount |-> 0, hour |-> 1200, day_of_week |-> 0, is_weekend |-> 0,
     is_night |-> 0, amount_z_score |-> 0, time_diff_minutes |-> 6000,
     has_location |-> 100, user_risk_score |-> 2000, user_avg_amount |-> 10000,
     user_amount_std |-> 5000, user_txn_count |-> 1000, merchant_fraud_rate |-> 2,
     merchant_category_encoded |-> 0, merchant_risk_encoded |-> 0]

\* a schema of recognized names, as a hand-written metadata.json would hold
SchemaA == <<"amount", "hour", "has_location">>

\* what metadata.json can hold: nothing, text json cannot read, or an object
\* with or without the key feature_names
MetaContents ==
    {[kind |-> "absent"], [kind |-> "corrupt"],
     [kind |-> "json", obj |-> [feature_names |-> SchemaA]],
     [kind |-> "json", obj |-> [feature_names |-> feature_columns]],
     [kind |-> "json", obj |-> [training_date |-> <<"2024">>]]}

ContentsOf(f) == IF f = metadata_file THEN MetaContents ELSE BlobContents

NoFiles == [f \in AllFiles |-> [kind |-> "absent"]]

\* a directory as a complete training run leaves it, with blob version v
TrainedDir(v) ==
    [f \in AllFiles |->
        IF f = metadata_file
        THEN [kind |-> "json", obj |-> [feature_names |-> SchemaA]]
        ELSE [kind |-> "blob", ver |-> v]]

\* the /predict payloads tried: request.json
Transactions ==
    {EmptyDict,
     [amount |-> 500000, hour |-> 300, user_risk_score |-> 9500,
      merchant_fraud_rate |-> 25]}

\* attributes of the objects the code calls by name
ndarray_attrs == {"reshape", "mean", "shape", "tolist"}
dict_attrs == {"items", "keys", "values", "get"}
IsolationForest_attrs == {"fit", "predict", "decision_function"}

\* ------------------------------------------------------ the service
Handlers == 1..MaxHandlers

ArtifactSet == [models |-> models, scalers |-> scalers,
                feature_names |-> feature_names]

NoResponse == [status |-> 0]
Zero == [num |-> 0, den |-> 1]

\* load_models returned to its caller: __init__ finishes construction,
\* the /reload handler answers with len(model_service.models)
LoadReturned ==
    /\ lpc' = "idle"
    /\ li' = 1
    /\ svc' = "up"
    /\ reload_resp' = IF caller = "reload"
                      THEN [status |-> 200, success |-> TRUE,
                            models_loaded |-> Cardinality(DOMAIN models')]
                      ELSE reload_resp
    /\ stable_sets' = stable_sets \cup
                      {[models |-> models', scalers |-> scalers',
                        feature_names |-> feature_names']}
    /\ UNCHANGED <<caller, reloads, load_ops>>

\* load_models raised: at import the module fails to load, in the /reload
\* handler the except clause answers 500
LoadRaised(exc) ==
    /\ li' = 1
    /\ IF caller = "init"
       THEN /\ svc' = "crashed"
            /\ lpc' = "dead"
            /\ UNCHANGED reload_resp
       ELSE /\ svc' = svc
            /\ lpc' = "idle"
            /\ reload_resp' = [status |-> 500, success |-> FALSE, error |-> exc]
    /\ stable_sets' = stable_sets \cup
                      {[models |-> models', scalers |-> scalers',
                        feature_names |-> feature_names']}
    /\ UNCHANGED <<caller, reloads, load_ops>>

LoadStep(next) ==
    /\ lpc' = next
    /\ UNCHANGED <<svc, li, caller, reload_resp, reloads, stable_sets, load_ops>>

\* if not os.path.exists(self.models_dir): return
LoadCheckDir ==
    /\ lpc = "exists"
    /\ UNCHANGED <<dirVars, svcVars, handlerVars, trainVars, aggVars>>
    /\ IF dir_exists THEN LoadStep("metadata") ELSE LoadReturned

\* metadata.json, when present, gives metadata and feature_names
LoadMetadata ==
    /\ lpc = "metadata"
    /\ UNCHANGED <<dirVars, models, scalers, handlerVars, trainVars, aggVars>>
    /\ LET c == files[metadata_file] IN
       CASE c.kind = "absent" ->
              /\ UNCHANGED <<metadata, feature_names>>
              /\ LoadStep("models")
         [] c.kind = "corrupt" ->
              /\ UNCHANGED <<metadata, feature_names>>
              /\ LoadRaised("JSONDecodeError")
         [] OTHER ->
              /\ metadata' = c.obj
              /\ feature_names' = Get(c.obj, "feature_names", <<>>)
              /\ LoadStep("models")

\* model_name = model_file.replace(',pkl', '')
model_name_of(model_file) == Replace(model_file, <<",", "pkl">>, <<>>)

\* one round of the loop over model_files
LoadModelFile ==
    /\ lpc = "models"
    /\ UNCHANGED <<dirVars, scalers, feature_names, metadata, handlerVars,
                   trainVars, aggVars>>
    /\ LET model_file == model_files[li]
           c == files[model_file]
           next == IF li = Len(model_files) THEN "scaler" ELSE "models"
           nli == IF li = Len(model_files) THEN 1 ELSE li + 1
       IN
       CASE c.kind = "corrupt" ->
              /\ UNCHANGED models
              /\ LoadRaised("UnpicklingError")
         [] OTHER ->
              /\ models' = IF c.kind = "absent" THEN models
                           ELSE (model_name_of(model_file) :> [ver |-> c.ver])
                                @@ models
              /\ lpc' = next
              /\ li' = nli
              /\ UNCHANGED <<svc, caller, reload_resp, reloads, stable_sets,
                             load_ops>>

\* standard_scaler.pkl, when present, gives scalers['standard']; then return
LoadScaler ==
    /\ lpc = "scaler"
    /\ UNCHANGED <<dirVars, models, feature_names, metadata, handlerVars,
                   trainVars, aggVars>>
    /\ LET c == files[scaler_file] IN
       CASE c.kind = "corrupt" ->
              /\ UNCHANGED scalers
              /\ LoadRaised("UnpicklingError")
         [] OTHER ->
              /\ scalers' = IF c.kind = "absent" THEN scalers
                            ELSE ("standard" :> [ver |-> c.ver]) @@ scalers
              /\ LoadReturned

\* POST /reload: model_service.load_models()
StartReload ==
    /\ svc = "up"
    /\ lpc = "idle"
    /\ reloads < MaxReloads
    /\ lpc' = "exists"
    /\ caller' = "reload"
    /\ reloads' = reloads + 1
    /\ load_ops' = dir_ops
    /\ UNCHANGED <<svc, li, reload_resp, stable_sets>>
    /\ UNCHANGED <<dirVars, svcVars, handlerVars, trainVars, aggVars>>

\* ------------------------------------------------------ prediction
\* extract_features: the dict of recognized names, the vector in schema
\* order, then the call of the array's attribute "resape"
extract_features(transaction_data, schema) ==
    LET features == [name \in DOMAIN FeatureDefaults |->
                        Get(transaction_data, name, FeatureDefaults[name])]
    IN
    IF \E i \in 1..Len(schema) : schema[i] \notin DOMAIN features
    THEN [raised |-> TRUE, exc |-> "KeyError", value |-> <<>>]
    ELSE IF "resape" \notin ndarray_attrs
         THEN [raised |-> TRUE, exc |-> "AttributeError", value |-> <<>>]
         ELSE [raised |-> FALSE, exc |-> "",
               value |-> [i \in 1..Len(schema) |-> features[schema[i]]]]

\* the fitted artifacts are opaque: a stub of version v always answers the
\* same, whatever the vector
StubProba == [v \in 1..MaxVersion |-> IF v = 1 THEN (9 * Scale) \div 10
                                      ELSE Scale \div 10]
predict_proba(model, x) == StubProba[model.ver]
decision_function(model, x) == IF model.ver = 1 THEN 0 - 3 ELSE 2
predict(model, x) == IF decision_function(model, x) < 0 THEN 0 - 1 ELSE 1

\* the scaler adapter: transform when scalers has 'standard', else identity
scale_features(scals, features) ==
    IF "standard" \in DOMAIN scals
    THEN [x |-> features, scaled_by |-> scals["standard"].ver]
    ELSE [x |-> features, scaled_by |-> 0]

ProbabilityRecord(p) ==
    [fraud_probability |-> p, prediction |-> IF 2 * p > Scale THEN 1 ELSE 0]

\* the per-model record: one entry for each of the three names that is a
\* key of models
ensemble_predictions(mods, x) ==
    LET present == {n \in {"random_forest", "xgboost", "isolation_forest"} :
                        <<n>> \in DOMAIN mods}
    IN [n \in present |->
          IF n = "isolation_forest"
          THEN [anomaly_score |-> decision_function(mods[<<n>>], x),
                is_anomaly |-> IF predict(mods[<<n>>], x) = 0 - 1 THEN 1 ELSE 0]
          ELSE ProbabilityRecord(predict_proba(mods[<<n>>], x))]

\* fraud_scores: the probabilities of random_forest and xgboost, if present
fraud_scores_of(predictions) ==
    (IF "random_forest" \in DOMAIN predictions
     THEN <<predictions["random_forest"].fraud_probability>> ELSE <<>>)
    \o
    (IF "xgboost" \in DOMAIN predictions
     THEN <<predictions["xgboost"].fraud_probability>> ELSE <<>>)

RECURSIVE SeqSum(_)
SeqSum(s) == IF s = <<>> THEN 0 ELSE Head(s) + SeqSum(Tail(s))

\* np.mean(fraud_scores) if fraud_scores else 0
ensemble_score_of(fraud_scores) ==
    IF fraud_scores # <<>>
    THEN [num |-> SeqSum(fraud_scores), den |-> Len(fraud_scores) * Scale]
    ELSE Zero

\* r >= a/b for a score r
AtLeast(r, a, b) == r.num * b >= a * r.den

RiskLevelStrict(ensemble_score) ==
    IF ensemble_score.num * 5 > 4 * ensemble_score.den
    THEN [risk_level |-> "HIGH", action |-> "BLOCK"]
    ELSE IF ensemble_score.num * 2 > ensemble_score.den
         THEN [risk_level |-> "MEDIUM", action |-> "REVIEW"]
         ELSE [risk_level |-> "LOW", action |-> "ALLOW"]

\* if score >= 0.8 ... elif score >= 0.5 ... else
RiskLevel(ensemble_score) ==
    IF AtLeast(ensemble_score, 4, 5)
    THEN [risk_level |-> "HIGH", action |-> "BLOCK"]
    ELSE IF AtLeast(ensemble_score, 1, 2)
         THEN [risk_level |-> "MEDIUM", action |-> "REVIEW"]
         ELSE [risk_level |-> "LOW", action |-> "ALLOW"]

\* list(predictions.keys()), in insertion order
models_used_of(predictions) ==
    LET Pick(n) == IF n \in DOMAIN predictions THEN <<n>> ELSE <<>>
    IN Pick("random_forest") \o Pick("xgboost") \o Pick("isolation_forest")

\* the risk aggregator: from the per-model record to the returned dict
aggregate(predictions, feature_count) ==
    LET ensemble_score == ensemble_score_of(fraud_scores_of(predictions))
        tier == RiskLevel(ensemble_score)
    IN [fraud_score |-> [num |-> ensemble_score.num * 100,
                         den |-> ensemble_score.den],
        risk_level |-> tier.risk_level,
        action |-> tier.action,
        model_predictions |-> predictions,
        feature_count |-> feature_count,
        models_used |-> models_used_of(predictions)]

\* what predict_fraud returns when self.models is empty
NoModelsLoaded ==
    [error |-> "No models loaded. Please train models first",
     fraud_score |-> Zero,
     model_predictions |-> EmptyDict]

\* POST /predict up to predict_fraud's test of self.models
PredictRequest(h, tx) ==
    /\ svc = "up"
    /\ hpc[h] = "idle"
    /\ requests < MaxRequests
    /\ requests' = requests + 1
    /\ htx' = [htx EXCEPT ![h] = tx]
    /\ UNCHANGED <<dirVars, svcVars, loadVars, trainVars, aggVars>>
    /\ IF DOMAIN tx = {}
       THEN /\ hresp' = [hresp EXCEPT ![h] =
                           [status |-> 400,
                            error |-> "No transaction data provided"]]
            /\ hobs' = [hobs EXCEPT ![h] = [models |-> models]]
            /\ UNCHANGED hpc
       ELSE IF DOMAIN models = {}
            THEN /\ hresp' = [hresp EXCEPT ![h] =
                                [status |-> 200, success |-> TRUE,
                                 prediction |-> NoModelsLoaded]]
                 /\ hobs' = [hobs EXCEPT ![h] = [models |-> models]]
                 /\ UNCHANGED hpc
            ELSE /\ hresp' = [hresp EXCEPT ![h] = NoResponse]
                 /\ hobs' = [hobs EXCEPT ![h] = [models |-> models]]
                 /\ hpc' = [hpc EXCEPT ![h] = "extract"]

\* predict_fraud from extract_features on, and the handler's except clause
PredictExtract(h) ==
    /\ hpc[h] = "extract"
    /\ hpc' = [hpc EXCEPT ![h] = "idle"]
    /\ hobs' = [hobs EXCEPT ![h] =
                  [models |-> hobs[h].models, feature_names |-> feature_names]]
    /\ UNCHANGED <<htx, requests>>
    /\ UNCHANGED <<dirVars, svcVars, loadVars, trainVars, aggVars>>
    /\ LET features == extract_features(htx[h], feature_names) IN
       IF features.raised
       THEN hresp' = [hresp EXCEPT ![h] =
                        [status |-> 500, success |-> FALSE,
                         error |-> features.exc]]
       ELSE hresp' = [hresp EXCEPT ![h] =
                        [status |-> 200, success |-> TRUE,
                         prediction |->
                            aggregate(
                              ensemble_predictions(
                                models, scale_features(scalers, features.value)),
                              Len(feature_names))]]

\* ------------------------------------------- changes to the directory
\* somebody writes file f (a new blob, a damaged one, another metadata)
EnvWrite(f, c) ==
    /\ dir_exists
    /\ dir_ops < MaxDirOps
    /\ c.kind # "absent"
    /\ c # files[f]
    /\ files' = [files EXCEPT ![f] = c]
    /\ dir_ops' = dir_ops + 1
    /\ UNCHANGED <<dir_exists, svcVars, loadVars, handlerVars, trainVars, aggVars>>

\* somebody deletes file f
EnvDelete(f) ==
    /\ dir_exists
    /\ dir_ops < MaxDirOps
    /\ files[f].kind # "absent"
    /\ files' = [files EXCEPT ![f] = [kind |-> "absent"]]
    /\ dir_ops' = dir_ops + 1
    /\ UNCHANGED <<dir_exists, svcVars, loadVars, handlerVars, trainVars, aggVars>>

\* somebody removes the whole directory
EnvRemoveDir ==
    /\ dir_exists
    /\ dir_ops < MaxDirOps
    /\ dir_exists' = FALSE
    /\ files' = NoFiles
    /\ dir_ops' = dir_ops + 1
    /\ UNCHANGED <<svcVars, loadVars, handlerVars, trainVars, aggVars>>

\* somebody creates the directory
EnvMakeDir ==
    /\ ~dir_exists
    /\ dir_ops < MaxDirOps
    /\ dir_exists' = TRUE
    /\ dir_ops' = dir_ops + 1
    /\ UNCHANGED <<files, svcVars, loadVars, handlerVars, trainVars, aggVars>>

\* ------------------------------------------------------ the trainer
callable_types == {"function", "method", "type"}

\* the columns of generate_synthetic_data's records
SyntheticColumns ==
    {"amount", "hour", "day_of_week", "is_weekend", "is_night",
     "amount_z_score", "time_diff_minutes", "has_location", "user_risk_score",
     "user_avg_amount", "user_amount_std", "user_txn_amount",
     "merchant_fraud_rate", "merchant_category_encoded",
     "merchant_risk_encoded", "is_fraud"}

SeqRange(s) == {s[i] : i \in 1..Len(s)}

\* training_date.json as found by load_training_data: missing, or records
\* with the given columns
TrainingData ==
    {[exists |-> FALSE, columns |-> {}],
     [exists |-> TRUE, columns |-> SyntheticColumns],
     [exists |-> TRUE, columns |-> SeqRange(feature_columns) \cup {"is_fraud"}]}

\* train_all_models, run to its end or to the exception that ends it
TrainAllModels(data) ==
    /\ UNCHANGED <<dirVars, svcVars, loadVars, handlerVars, aggVars>>
    /\ IF ~data.exists /\ "float" \notin callable_types
       THEN \* generate_synthetic_data: fraud_rate()
            /\ t_status' = "TypeError"
            /\ UNCHANGED <<t_models, t_scalers, t_feature_names>>
       ELSE LET columns == IF data.exists THEN data.columns
                           ELSE SyntheticColumns IN
            IF ~(SeqRange(feature_columns) \cup {"is_fraud"} \subseteq columns)
            THEN \* prepare_features: df[feature_columns + ['is_fraud']]
                 /\ t_status' = "KeyError"
                 /\ UNCHANGED <<t_models, t_scalers, t_feature_names>>
            ELSE /\ t_feature_names' = feature_columns
                 /\ t_scalers' = {"standard"}
                 /\ IF "fix" \notin IsolationForest_attrs
                    THEN \* train_isolation_forest: iso_model.fix(X_train)
                         /\ t_models' = t_models
                                        \cup {"random_forest", "xgboost"}
                         /\ t_status' = "AttributeError"
                    ELSE /\ t_models' = {"random_forest", "xgboost",
                                         "isolation_forest"}
                         /\ t_status' = "trained"

\* save_models: a blob for each model, then the loop over self.scalers.item()
SaveModels ==
    /\ dir_exists' = TRUE
    /\ UNCHANGED <<dir_ops, svcVars, loadVars, handlerVars, aggVars>>
    /\ UNCHANGED <<t_models, t_scalers, t_feature_names>>
    /\ LET written == {<<n, ".", "pkl">> : n \in t_models}
           with_models == [f \in AllFiles |->
                             IF f \in written THEN [kind |-> "blob", ver |-> 1]
                             ELSE files[f]]
       IN
       IF "item" \notin dict_attrs
       THEN /\ files' = with_models
            /\ t_status' = "save:AttributeError"
       ELSE /\ files' =
                 [f \in AllFiles |->
                     IF f = metadata_file
                     THEN [kind |-> "json",
                           obj |-> [feature_names |-> t_feature_names]]
                     ELSE IF \E n \in t_scalers : f = <<n, "_scaler", ".", "pkl">>
                          THEN [kind |-> "blob", ver |-> 1]
                          ELSE with_models[f]]
            /\ t_status' = "saved"

\* ------------------------------------------------------ specifications
\* fields as FraudModelService.__init__ sets them, load_models about to run
InitService ==
    /\ models = EmptyDict
    /\ scalers = EmptyDict
    /\ feature_names = <<>>
    /\ metadata = EmptyDict
    /\ svc = "starting"
    /\ lpc = "exists"
    /\ li = 1
    /\ caller = "init"
    /\ reload_resp = NoResponse
    /\ reloads = 0
    /\ stable_sets = {}
    /\ load_ops = 0
    /\ hpc = [h \in Handlers |-> "idle"]
    /\ htx = [h \in Handlers |-> EmptyDict]
    /\ hobs = [h \in Handlers |-> EmptyDict]
    /\ hresp = [h \in Handlers |-> NoResponse]
    /\ requests = 0

\* fields as FraudModelTrainer.__init__ sets them
InitTrainer ==
    /\ t_models = {}
    /\ t_scalers = {}
    /\ t_feature_names = <<>>
    /\ t_status = "new"

NoAggregate == [risk_level |-> "none"]

\* the directories a run starts from
InitFiles ==
    {NoFiles, TrainedDir(1),
     [TrainedDir(1) EXCEPT ![metadata_file] = [kind |-> "absent"]],
     [TrainedDir(1) EXCEPT ![model_files[1]] = [kind |-> "corrupt"]],
     [NoFiles EXCEPT ![model_files[3]] = [kind |-> "blob", ver |-> 1]]}

Init ==
    /\ InitService
    /\ InitTrainer
    /\ dir_exists \in BOOLEAN
    /\ files \in (IF dir_exists THEN InitFiles ELSE {NoFiles})
    /\ dir_ops = 0
    /\ agg_in = EmptyDict
    /\ agg_out = NoAggregate

Load == LoadCheckDir \/ LoadMetadata \/ LoadModelFile \/ LoadScaler \/ StartReload

Predict ==
    \/ \E h \in Handlers, tx \in Transactions : PredictRequest(h, tx)
    \/ \E h \in Handlers : PredictExtract(h)

Env ==
    \/ \E f \in AllFiles : \E c \in ContentsOf(f) : EnvWrite(f, c)
    \/ \E f \in AllFiles : EnvDelete(f)
    \/ EnvRemoveDir
    \/ EnvMakeDir

Next == Load \/ Predict \/ Env

Spec == Init /\ [][Next]_vars

\* the trainer and the service on one directory
InitTrain ==
    /\ InitService
    /\ InitTrainer
    /\ dir_exists \in BOOLEAN
    /\ files = NoFiles
    /\ dir_ops = 0
    /\ agg_in = EmptyDict
    /\ agg_out = NoAggregate

Train == (\E data \in TrainingData : TrainAllModels(data)) \/ SaveModels

NextTrain == Train \/ Load \/ Predict

SpecTrain == InitTrain /\ [][NextTrain]_vars

\* the risk aggregator alone, on every per-model record
PredictionRecords ==
    LET rf == {EmptyDict} \cup
              {[random_forest |-> ProbabilityRecord(p)] : p \in 0..Scale}
        xgb == {EmptyDict} \cup
               {[xgboost |-> ProbabilityRecord(p)] : p \in 0..Scale}
        iso == {EmptyDict} \cup
               {[isolation_forest |->
                    [anomaly_score |-> a,
                     is_anomaly |-> IF a < 0 THEN 1 ELSE 0]] : a \in {0 - 3, 2}}
    IN {a @@ b @@ c : a \in rf, b \in xgb, c \in iso}

InitRisk ==
    /\ InitService
    /\ InitTrainer
    /\ dir_exists = FALSE
    /\ files = NoFiles
    /\ dir_ops = 0
    /\ agg_in \in PredictionRecords
    /\ agg_out = NoAggregate

Aggregate ==
    /\ agg_out = NoAggregate
    /\ agg_out' = aggregate(agg_in, Len(SchemaA))
    /\ UNCHANGED <<agg_in, dirVars, svcVars, loadVars, handlerVars, trainVars>>

NextRisk == Aggregate

SpecRisk == InitRisk /\ [][NextRisk]_vars

\* ------------------------------------------------------------- claims
\* handler h has answered a request that went through extract_features
Extracted(h) == hpc[h] = "idle" /\ "feature_names" \in DOMAIN hobs[h]

\* the directory has not changed since the current or last load began
DirQuiet == dir_ops = load_ops

\* a load has ended and none is running
LoadEnded == lpc \in {"idle", "dead"}

SameScore(a, b) == a.num * b.den = b.num * a.den

\* C1: every prediction is scored against one artifact set that existed
\* while no load was running (the set before a reload or the set after it):
\* once the reload is over, the models and the schema a handler used are
\* seen to come from one such set.
C1_ReloadAtomic ==
    \A h \in Handlers :
        (Extracted(h) /\ lpc = "idle" /\ DirQuiet) =>
            \E s \in stable_sets :
                /\ s.models = hobs[h].models
                /\ s.feature_names = hobs[h].feature_names

\* C2: once a reload has returned, what is loaded is exactly what the
\* directory held at reload time: as many models as model files present,
\* a scaler iff the scaler file is present, the schema of metadata.json
\* (empty without it), and nothing at all for a missing directory.
C2_ReloadReplaces ==
    (lpc = "idle" /\ caller = "reload" /\ reload_resp.status = 200 /\ DirQuiet)
    => LET present == {i \in 1..Len(model_files) :
                          files[model_files[i]].kind = "blob"}
       IN /\ Cardinality(DOMAIN models) = Cardinality(present)
          /\ reload_resp.models_loaded = Cardinality(present)
          /\ \A i \in present :
                \E k \in DOMAIN models :
                    models[k].ver = files[model_files[i]].ver
          /\ ("standard" \in DOMAIN scalers) <=> (files[scaler_file].kind = "blob")
          /\ feature_names =
                IF files[metadata_file].kind = "json"
                THEN Get(files[metadata_file].obj, "feature_names", <<>>)
                ELSE <<>>

\* C3: a load over a directory with unreadable blobs still completes and
\* loads every present, well-formed artifact, whatever its place in the
\* load order.
C3_CorruptSkipped ==
    (LoadEnded /\ DirQuiet /\ dir_exists)
    => /\ svc = "up"
       /\ caller = "reload" => reload_resp.status = 200
       /\ \A i \in 1..Len(model_files) :
             files[model_files[i]].kind = "blob" =>
                /\ model_name_of(model_files[i]) \in DOMAIN models
                /\ models[model_name_of(model_files[i])].ver
                      = files[model_files[i]].ver
       /\ files[scaler_file].kind = "blob" =>
             /\ "standard" \in DOMAIN scalers
             /\ scalers["standard"].ver = files[scaler_file].ver

\* C4: models are indexed by a name of the closed set, and a prediction
\* has an entry for a name iff that model was loaded.
C4_IndexedByName ==
    /\ DOMAIN models \subseteq ModelNames
    /\ \A h \in Handlers :
          Extracted(h) =>
             /\ hresp[h].status = 200
             /\ \A n \in {"random_forest", "xgboost", "isolation_forest"} :
                   (n \in DOMAIN hresp[h].prediction.model_predictions)
                   <=> (\E k \in DOMAIN hobs[h].models : Head(k) = n)

\* C5: a prediction's fraud_score is 100 times the mean probability of the
\* loaded random_forest and xgboost models (0 when neither is loaded); two
\* stubs answering 0.9 give 90, HIGH, BLOCK.
C5_EnsembleMean ==
    \A h \in Handlers :
        Extracted(h) =>
            LET mods == hobs[h].models
                probs == {k \in DOMAIN mods :
                             Head(k) \in {"random_forest", "xgboost"}}
                total == SeqSum([i \in 1..Len(model_files) |->
                            IF \E k \in probs : Head(k) = Head(model_files[i])
                            THEN predict_proba(
                                   mods[CHOOSE k \in probs :
                                          Head(k) = Head(model_files[i])], <<>>)
                            ELSE 0])
                expected == IF probs = {} THEN Zero
                            ELSE [num |-> total * 100,
                                  den |-> Cardinality(probs) * Scale]
            IN /\ hresp[h].status = 200
               /\ SameScore(hresp[h].prediction.fraud_score, expected)
               /\ SameScore(expected, [num |-> 90, den |-> 1]) =>
                     /\ hresp[h].prediction.risk_level = "HIGH"
                     /\ hresp[h].prediction.action = "BLOCK"

\* C6: the tier and the action follow the score alone: at least 0.8 is
\* HIGH/BLOCK, from 0.5 up to but not including 0.8 is MEDIUM/REVIEW,
\* below 0.5 is LOW/ALLOW (fraud_score is the score times 100).
C6_RiskTiers ==
    agg_out # NoAggregate =>
        LET fs == agg_out.fraud_score
            tier == <<agg_out.risk_level, agg_out.action>>
        IN /\ fs.num >= 80 * fs.den <=> tier = <<"HIGH", "BLOCK">>
           /\ (fs.num >= 50 * fs.den /\ fs.num < 80 * fs.den)
                 <=> tier = <<"MEDIUM", "REVIEW">>
           /\ fs.num < 50 * fs.den <=> tier = <<"LOW", "ALLOW">>

\* C6 witness: a score of exactly 0.8 has been aggregated and came out HIGH
C6_Witness ==
    /\ agg_out # NoAggregate
    /\ agg_out.fraud_score.num = 80 * agg_out.fraud_score.den
    /\ agg_out.risk_level = "HIGH"
    /\ agg_out.action = "BLOCK"
    /\ DOMAIN agg_in = {"random_forest", "xgboost", "isolation_forest"}
    /\ agg_in["random_forest"].fraud_probability
          # agg_in["xgboost"].fraud_probability

\* C7: a request that meets a service with no models is answered with
\* fraud_score 0, the "no models loaded" indicator and no model
\* predictions, whatever JSON object it carries.
C7_NoModelsSignalled ==
    \A h \in Handlers :
        (hpc[h] = "idle" /\ "models" \in DOMAIN hobs[h]
                         /\ DOMAIN hobs[h].models = {})
        => /\ hresp[h].status = 200
           /\ hresp[h].prediction = NoModelsLoaded

\* the defaults the specification documents, in hundredths
DocumentedDefaults ==
    [amount |-> 0, hour |-> 1200, day_of_week |-> 0, is_weekend |-> 0,
     is_night |-> 0, amount_z_score |-> 0, time_diff_minutes |-> 6000,
     has_location |-> 100, user_risk_score |-> 2000, user_avg_amount |-> 10000,
     user_amount_std |-> 5000, user_txn_count |-> 1000, merchant_fraud_rate |-> 2,
     merchant_category_encoded |-> 0, merchant_risk_encoded |-> 0]

\* C8: for a schema of recognized names, extraction returns a vector as long
\* as the schema whose i-th element is the record's value for the i-th name,
\* or that name's documented default.
C8_ExtractDefaults ==
    \A h \in Handlers :
        (hpc[h] = "extract"
         /\ \A i \in 1..Len(feature_names) :
               feature_names[i] \in DOMAIN DocumentedDefaults)
        => LET r == extract_features(htx[h], feature_names) IN
           /\ ~r.raised
           /\ Len(r.value) = Len(feature_names)
           /\ \A i \in 1..Len(feature_names) :
                 r.value[i] = Get(htx[h], feature_names[i],
                                  DocumentedDefaults[feature_names[i]])

\* C9: every feature name the trainer holds for metadata.json is a name the
\* extractor recognizes, and once save_models has run, metadata.json holds
\* them in the trainer's order.
C9_SchemaRoundTrip ==
    /\ \A i \in 1..Len(t_feature_names) :
          t_feature_names[i] \in DOMAIN FeatureDefaults
    /\ t_status \in {"save:AttributeError", "saved"} =>
          /\ files[metadata_file].kind = "json"
          /\ Get(files[metadata_file].obj, "feature_names", <<>>)
                = t_feature_names

\* C10: a prediction made with models loaded and an empty schema is answered
\* with the structured "no models loaded" response and fraud_score 0.
C10_EmptySchemaSignalled ==
    \A h \in Handlers :
        (Extracted(h) /\ hobs[h].feature_names = <<>>)
        => /\ hresp[h].status = 200
           /\ hresp[h].prediction.fraud_score = Zero
           /\ "error" \in DOMAIN hresp[h].prediction
====
